---- MODULE Spec2Model ----
(***************************************************************************)
(* A model of checkers.py: the board and State, the move generator with    *)
(* forced captures, jump chains and promotion, the evaluator, the          *)
(* alpha-beta search with its memoization table, and the game driver.      *)
(*                                                                         *)
(* Values.  A board is a function board[i][j] over rows 0..HEIGHT-1 and    *)
(* columns 0..WIDTH-1 of the five cell characters.  A State is the record  *)
(* [board, next_turn].  Python lists are sequences, in the order the code  *)
(* builds them.                                                            *)
(*                                                                         *)
(* Utilities.  The heuristic of get_utility has the weights 1, 2, 0.5 and  *)
(* 0.15; the model holds every heuristic value in twentieths (weights 20,  *)
(* 40, 10 and 3), in exact integer arithmetic.  MIN_UTILITY and            *)
(* MAX_UTILITY keep their source values: they only take part in            *)
(* comparisons, and a heuristic value in twentieths stays strictly between *)
(* them as the unscaled one does.                                          *)
(***************************************************************************)
EXTENDS Integers, Sequences, FiniteSets, TLC

WIDTH == 8
HEIGHT == 8

RED_PIECE == "r"
RED_KING == "R"
BLACK_PIECE == "b"
BLACK_KING == "B"
EMPTY_SQUARE == "."

MIN_UTILITY == -1000000000
MAX_UTILITY == 1000000000

DEPTH_LIMIT == 9

\* Python's None (a successor that is missing, a state that is missing).
None == [none |-> TRUE]

Rows == 0 .. (HEIGHT - 1)
Cols == 0 .. (WIDTH - 1)
Cells == Rows \X Cols

State(board, next_turn) == [board |-> board, next_turn |-> next_turn]

(***************************************************************************)
(* Iteration.  `for i in range(HEIGHT): for j in range(WIDTH)` visits the  *)
(* cells in row-major order: ForCells concatenates f[i][j], what the loop  *)
(* body contributes at cell (i, j), from cell number n on.  ForEach does   *)
(* the same for a loop over a sequence of directions, f[d] being the       *)
(* contribution of direction d.                                            *)
(***************************************************************************)
RECURSIVE ForCells(_, _)
ForCells(f, n) ==
    IF n = HEIGHT * WIDTH THEN <<>>
    ELSE f[n \div WIDTH][n % WIDTH] \o ForCells(f, n + 1)

RECURSIVE ForEach(_, _, _)
ForEach(f, seq, k) ==
    IF k > Len(seq) THEN <<>>
    ELSE f[seq[k]] \o ForEach(f, seq, k + 1)

(***************************************************************************)
(* The direction sets of the code are Python set literals of int pairs.    *)
(* CPython iterates them in the order of their hashes, which is fixed for  *)
(* tuples of small ints: the sequences below are that order.               *)
(***************************************************************************)
RedMoves == << <<-1, 1>>, <<-1, -1>> >>
BlackMoves == << <<1, 1>>, <<1, -1>> >>
KingMoves == << <<-1, 1>>, <<1, 1>>, <<-1, -1>>, <<1, -1>> >>
Directions == {KingMoves[k] : k \in DOMAIN KingMoves}

get_next_turn(curr_turn) ==
    IF curr_turn = RED_PIECE THEN BLACK_PIECE ELSE RED_PIECE

red_win(self) ==
    \A i \in Rows, j \in Cols :
        ~(self.board[i][j] = BLACK_PIECE \/ self.board[i][j] = BLACK_KING)

black_win(self) ==
    \A i \in Rows, j \in Cols :
        ~(self.board[i][j] = RED_PIECE \/ self.board[i][j] = RED_KING)

_can_jump(jump_over_y, jump_over_x, jump_to_y, jump_to_x, next_next_player_piece, next_next_player_king, curr_board) ==
    /\ 0 <= jump_over_y /\ jump_over_y < HEIGHT
    /\ 0 <= jump_over_x /\ jump_over_x < WIDTH
    /\ 0 <= jump_to_y /\ jump_to_y < HEIGHT
    /\ 0 <= jump_to_x /\ jump_to_x < WIDTH
    /\ curr_board[jump_to_y][jump_to_x] = EMPTY_SQUARE
    /\ \/ curr_board[jump_over_y][jump_over_x] = next_next_player_piece
       \/ curr_board[jump_over_y][jump_over_x] = next_next_player_king

(***************************************************************************)
(* A finished jump chain: the State the code returns, and `at`, the square *)
(* (i, j) the recursion stands on when it returns it (the landing square   *)
(* of the last jump).                                                      *)
(***************************************************************************)
Chain(board, next_turn, i, j) ==
    [board |-> board, next_turn |-> next_turn, at |-> <<i, j>>]

RECURSIVE _generate_jump_moves_for_piece(_, _, _, _)

\* Mutation: a man's jump leaves the piece it jumped over on the board.
_generate_jump_moves_for_piece_kept(self, i, j, curr_board) ==
    LET next_player_piece ==
            IF self.next_turn = RED_PIECE THEN RED_PIECE ELSE BLACK_PIECE
        piece_moves ==
            IF self.next_turn = RED_PIECE THEN RedMoves ELSE BlackMoves
        next_player_king ==
            IF self.next_turn = RED_PIECE THEN RED_KING ELSE BLACK_KING
        next_next_player_piece ==
            IF self.next_turn = RED_PIECE THEN BLACK_PIECE ELSE RED_PIECE
        next_next_player_king ==
            IF self.next_turn = RED_PIECE THEN BLACK_KING ELSE RED_KING
        can(d) == _can_jump(i + d[1], j + d[2], i + d[1] + d[1], j + d[2] + d[2],
                            next_next_player_piece, next_next_player_king,
                            curr_board)
        all_empty == \A k \in DOMAIN piece_moves : ~can(piece_moves[k])
        jump == [d \in Directions |->
            IF ~can(d) THEN <<>>
            ELSE
                LET x == d[1]
                    y == d[2]
                    new_board == [curr_board EXCEPT ![i][j] = EMPTY_SQUARE]
                IN  IF \/ (i + x + x = 0 /\ self.next_turn = RED_PIECE)
                       \/ (i + x + x = HEIGHT - 1 /\ self.next_turn = BLACK_PIECE)
                    THEN << Chain([new_board EXCEPT ![i + x + x][j + y + y] =
                                       next_player_king],
                                  next_next_player_piece, i + x + x, j + y + y) >>
                    ELSE _generate_jump_moves_for_piece(
                             self, i + x + x, j + y + y,
                             [new_board EXCEPT ![i + x + x][j + y + y] =
                                  next_player_piece])]
    IN  IF all_empty /\ self.board = curr_board THEN <<>>
        ELSE IF all_empty
             THEN << Chain(curr_board, next_next_player_piece, i, j) >>
             ELSE ForEach(jump, piece_moves, 1)

_generate_jump_moves_for_piece(self, i, j, curr_board) ==
    LET next_player_piece ==
            IF self.next_turn = RED_PIECE THEN RED_PIECE ELSE BLACK_PIECE
        piece_moves ==
            IF self.next_turn = RED_PIECE THEN RedMoves ELSE BlackMoves
        next_player_king ==
            IF self.next_turn = RED_PIECE THEN RED_KING ELSE BLACK_KING
        next_next_player_piece ==
            IF self.next_turn = RED_PIECE THEN BLACK_PIECE ELSE RED_PIECE
        next_next_player_king ==
            IF self.next_turn = RED_PIECE THEN BLACK_KING ELSE RED_KING
        can(d) == _can_jump(i + d[1], j + d[2], i + d[1] + d[1], j + d[2] + d[2],
                            next_next_player_piece, next_next_player_king,
                            curr_board)
        all_empty == \A k \in DOMAIN piece_moves : ~can(piece_moves[k])
        jump == [d \in Directions |->
            IF ~can(d) THEN <<>>
            ELSE
                LET x == d[1]
                    y == d[2]
                    new_board == [curr_board EXCEPT ![i][j] = EMPTY_SQUARE,
                                                    ![i + x][j + y] = EMPTY_SQUARE]
                IN  IF \/ (i + x + x = 0 /\ self.next_turn = RED_PIECE)
                       \/ (i + x + x = HEIGHT - 1 /\ self.next_turn = BLACK_PIECE)
                    THEN << Chain([new_board EXCEPT ![i + x + x][j + y + y] =
                                       next_player_king],
                                  next_next_player_piece, i + x + x, j + y + y) >>
                    ELSE _generate_jump_moves_for_piece(
                             self, i + x + x, j + y + y,
                             [new_board EXCEPT ![i + x + x][j + y + y] =
                                  next_player_piece])]
    IN  IF all_empty /\ self.board = curr_board THEN <<>>
        ELSE IF all_empty
             THEN << Chain(curr_board, next_next_player_piece, i, j) >>
             ELSE ForEach(jump, piece_moves, 1)

RECURSIVE _generate_jump_moves_for_king(_, _, _, _)

\* Mutation: the king's chain is returned after its first jump, without the
\* recursive step from the landing square.
_generate_jump_moves_for_king_first_jump(self, i, j, curr_board) ==
    LET next_player_king ==
            IF self.next_turn = RED_PIECE THEN RED_KING ELSE BLACK_KING
        next_next_player_piece ==
            IF self.next_turn = RED_PIECE THEN BLACK_PIECE ELSE RED_PIECE
        next_next_player_king ==
            IF self.next_turn = RED_PIECE THEN BLACK_KING ELSE RED_KING
        can(d) == _can_jump(i + d[1], j + d[2], i + d[1] + d[1], j + d[2] + d[2],
                            next_next_player_piece, next_next_player_king,
                            curr_board)
        jump == [d \in Directions |->
            IF ~can(d) THEN <<>>
            ELSE << Chain([curr_board EXCEPT
                               ![i][j] = EMPTY_SQUARE,
                               ![i + d[1]][j + d[2]] = EMPTY_SQUARE,
                               ![i + d[1] + d[1]][j + d[2] + d[2]] = next_player_king],
                          next_next_player_piece,
                          i + d[1] + d[1], j + d[2] + d[2]) >>]
    IN  ForEach(jump, KingMoves, 1)

_generate_jump_moves_for_king(self, i, j, curr_board) ==
    LET next_player_king ==
            IF self.next_turn = RED_PIECE THEN RED_KING ELSE BLACK_KING
        next_next_player_piece ==
            IF self.next_turn = RED_PIECE THEN BLACK_PIECE ELSE RED_PIECE
        next_next_player_king ==
            IF self.next_turn = RED_PIECE THEN BLACK_KING ELSE RED_KING
        can(d) == _can_jump(i + d[1], j + d[2], i + d[1] + d[1], j + d[2] + d[2],
                            next_next_player_piece, next_next_player_king,
                            curr_board)
        all_empty == \A k \in DOMAIN KingMoves : ~can(KingMoves[k])
        jump == [d \in Directions |->
            IF ~can(d) THEN <<>>
            ELSE
                LET x == d[1]
                    y == d[2]
                    new_board == [curr_board EXCEPT ![i][j] = EMPTY_SQUARE,
                                                    ![i + x][j + y] = EMPTY_SQUARE,
                                                    ![i + x + x][j + y + y] =
                                                        next_player_king]
                IN  _generate_jump_moves_for_king(self, i + x + x, j + y + y,
                                                  new_board)]
    IN  IF all_empty /\ self.board = curr_board THEN <<>>
        ELSE IF all_empty
             THEN << Chain(curr_board, next_next_player_piece, i, j) >>
             ELSE ForEach(jump, KingMoves, 1)

\* The code falls off the end (returns None) when the cell holds neither a
\* man nor a king of `turn`; every caller tests the cell first.
_generate_jump_moves_for_curr(self, i, j, turn) ==
    LET next_player_piece == IF turn = RED_PIECE THEN RED_PIECE ELSE BLACK_PIECE
        next_player_king == IF turn = RED_PIECE THEN RED_KING ELSE BLACK_KING
        new_board == self.board
    IN  IF self.board[i][j] = next_player_piece
        THEN _generate_jump_moves_for_piece(self, i, j, new_board)
        ELSE IF self.board[i][j] = next_player_king
             THEN _generate_jump_moves_for_king(self, i, j, new_board)
             ELSE None

\* Dropping `at`: the State a finished chain stands for.
RECURSIVE States(_)
States(chains) ==
    IF chains = <<>> THEN <<>>
    ELSE << State(Head(chains).board, Head(chains).next_turn) >>
             \o States(Tail(chains))

_generate_jump_moves(self) ==
    LET next_player_piece ==
            IF self.next_turn = RED_PIECE THEN RED_PIECE ELSE BLACK_PIECE
        next_player_king ==
            IF self.next_turn = RED_PIECE THEN RED_KING ELSE BLACK_KING
        cell == [i \in Rows |-> [j \in Cols |->
            IF \/ self.board[i][j] = next_player_king
               \/ self.board[i][j] = next_player_piece
            THEN States(_generate_jump_moves_for_curr(self, i, j, self.next_turn))
            ELSE <<>>]]
    IN  ForCells(cell, 0)

\* Mutation: a man that steps onto its far row stays a man.
_generate_simple_moves_no_promotion(self, next_player) ==
    LET next_player_piece ==
            IF next_player = RED_PIECE THEN RED_PIECE ELSE BLACK_PIECE
        piece_moves == IF next_player = RED_PIECE THEN RedMoves ELSE BlackMoves
        next_player_king ==
            IF next_player = RED_PIECE THEN RED_KING ELSE BLACK_KING
        next_next_player ==
            IF next_player = RED_PIECE THEN BLACK_PIECE ELSE RED_PIECE
        free(i, j, d) ==
            /\ 0 <= i + d[1] /\ i + d[1] < HEIGHT
            /\ 0 <= j + d[2] /\ j + d[2] < WIDTH
            /\ self.board[i + d[1]][j + d[2]] = EMPTY_SQUARE
        cell == [i \in Rows |-> [j \in Cols |->
            LET step == [d \in Directions |->
                    IF ~free(i, j, d) THEN <<>>
                    ELSE << State([self.board EXCEPT
                                       ![i][j] = EMPTY_SQUARE,
                                       ![i + d[1]][j + d[2]] = self.board[i][j]],
                                  next_next_player) >>]
            IN  IF self.board[i][j] = next_player_piece
                THEN ForEach(step, piece_moves, 1)
                ELSE IF self.board[i][j] = next_player_king
                     THEN ForEach(step, KingMoves, 1)
                     ELSE <<>>]]
    IN  ForCells(cell, 0)

_generate_simple_moves(self, next_player) ==
    LET next_player_piece ==
            IF next_player = RED_PIECE THEN RED_PIECE ELSE BLACK_PIECE
        piece_moves == IF next_player = RED_PIECE THEN RedMoves ELSE BlackMoves
        next_player_king ==
            IF next_player = RED_PIECE THEN RED_KING ELSE BLACK_KING
        next_next_player ==
            IF next_player = RED_PIECE THEN BLACK_PIECE ELSE RED_PIECE
        free(i, j, d) ==
            /\ 0 <= i + d[1] /\ i + d[1] < HEIGHT
            /\ 0 <= j + d[2] /\ j + d[2] < WIDTH
            /\ self.board[i + d[1]][j + d[2]] = EMPTY_SQUARE
        cell == [i \in Rows |-> [j \in Cols |->
            LET man == [d \in Directions |->
                    IF ~free(i, j, d) THEN <<>>
                    ELSE
                        LET x == d[1]
                            y == d[2]
                            new_board == [self.board EXCEPT ![i][j] = EMPTY_SQUARE]
                        IN  IF \/ (i + x = 0 /\ next_player = RED_PIECE)
                               \/ (i + x = HEIGHT - 1 /\ next_player = BLACK_PIECE)
                            THEN << State([new_board EXCEPT ![i + x][j + y] =
                                               next_player_king],
                                          next_next_player) >>
                            ELSE << State([new_board EXCEPT ![i + x][j + y] =
                                               next_player_piece],
                                          next_next_player) >>]
                king == [d \in Directions |->
                    IF ~free(i, j, d) THEN <<>>
                    ELSE << State([self.board EXCEPT
                                       ![i][j] = EMPTY_SQUARE,
                                       ![i + d[1]][j + d[2]] = next_player_king],
                                  next_next_player) >>]
            IN  IF self.board[i][j] = next_player_piece
                THEN ForEach(man, piece_moves, 1)
                ELSE IF self.board[i][j] = next_player_king
                     THEN ForEach(king, KingMoves, 1)
                     ELSE <<>>]]
    IN  ForCells(cell, 0)

\* Mutation: the simple moves are returned along with the jump moves.
generate_successors_not_forced(self) ==
    _generate_jump_moves(self) \o _generate_simple_moves(self, self.next_turn)

generate_successors(self) ==
    LET jump_moves == _generate_jump_moves(self)
    IN  IF Len(jump_moves) = 0
        THEN _generate_simple_moves(self, self.next_turn)
        ELSE jump_moves

(***************************************************************************)
(* The evaluator.  _get_evaluation_params counts, for `player`, its men    *)
(* (num_pieces counts the cells equal to the man character only), its      *)
(* kings, and its men and kings in the centre region, in its advanced      *)
(* half, on the edge columns, and those with a jump chain.                 *)
(***************************************************************************)
\* Mutation: only the left edge column counts as edge.
_get_evaluation_params_left_edge(self, player) ==
    LET player_piece == player
        player_king == IF player = RED_PIECE THEN RED_KING ELSE BLACK_KING
        own(i, j) == self.board[i][j] = player_piece \/ self.board[i][j] = player_king
    IN  [num_pieces |->
             Cardinality({c \in Cells : self.board[c[1]][c[2]] = player_piece}),
         num_kings |->
             Cardinality({c \in Cells : self.board[c[1]][c[2]] = player_king}),
         num_center |->
             Cardinality({c \in Cells :
                 /\ own(c[1], c[2])
                 /\ \/ (2 <= c[1] /\ c[1] <= 5 /\ 3 <= c[2] /\ c[2] <= 4)
                    \/ (2 <= c[2] /\ c[2] <= 5 /\ 3 <= c[1] /\ c[1] <= 4)}),
         num_edge |->
             Cardinality({c \in Cells : own(c[1], c[2]) /\ c[2] = 0})]

_get_evaluation_params(self, player) ==
    LET player_piece == player
        player_king == IF player = RED_PIECE THEN RED_KING ELSE BLACK_KING
        own(i, j) == self.board[i][j] = player_piece \/ self.board[i][j] = player_king
    IN  [num_pieces |->
             Cardinality({c \in Cells : self.board[c[1]][c[2]] = player_piece}),
         num_kings |->
             Cardinality({c \in Cells : self.board[c[1]][c[2]] = player_king}),
         num_center |->
             Cardinality({c \in Cells :
                 /\ own(c[1], c[2])
                 /\ \/ (2 <= c[1] /\ c[1] <= 5 /\ 3 <= c[2] /\ c[2] <= 4)
                    \/ (2 <= c[2] /\ c[2] <= 5 /\ 3 <= c[1] /\ c[1] <= 4)}),
         num_advanced |->
             Cardinality({c \in Cells :
                 /\ own(c[1], c[2])
                 /\ \/ (player_piece = RED_PIECE /\ c[1] <= 3)
                    \/ (player_piece = BLACK_PIECE /\ c[1] >= 4)}),
         num_edge |->
             Cardinality({c \in Cells :
                 /\ own(c[1], c[2])
                 /\ (c[2] = 0 \/ c[2] = WIDTH - 1)}),
         num_can_attack |->
             Cardinality({c \in Cells :
                 /\ own(c[1], c[2])
                 /\ Len(_generate_jump_moves_for_curr(self, c[1], c[2],
                                                      player_piece)) > 0})]

\* Mutation: a win of red is scored for the wrong side.
get_utility_red_win_flipped(self) ==
    IF red_win(self) /\ self.next_turn = RED_PIECE THEN MAX_UTILITY
    ELSE IF red_win(self) /\ self.next_turn = BLACK_PIECE THEN MIN_UTILITY
    ELSE IF black_win(self) /\ self.next_turn = RED_PIECE THEN MAX_UTILITY
    ELSE IF black_win(self) /\ self.next_turn = BLACK_PIECE THEN MIN_UTILITY
    ELSE
        LET player == _get_evaluation_params(
                          self, IF self.next_turn = RED_PIECE THEN BLACK_PIECE
                                                              ELSE RED_PIECE)
            other == _get_evaluation_params(self, self.next_turn)
        IN  (20 * player.num_pieces + 40 * player.num_kings
                 + 10 * player.num_center + 3 * player.num_edge)
            - (20 * other.num_pieces + 40 * other.num_kings
                   + 10 * other.num_center + 3 * other.num_edge)

\* In twentieths: 1, 2, 0.5 and 0.15 are 20, 40, 10 and 3.
get_utility(self) ==
    IF red_win(self) /\ self.next_turn = RED_PIECE THEN MIN_UTILITY
    ELSE IF red_win(self) /\ self.next_turn = BLACK_PIECE THEN MAX_UTILITY
    ELSE IF black_win(self) /\ self.next_turn = RED_PIECE THEN MAX_UTILITY
    ELSE IF black_win(self) /\ self.next_turn = BLACK_PIECE THEN MIN_UTILITY
    ELSE
        LET player == _get_evaluation_params(
                          self, IF self.next_turn = RED_PIECE THEN BLACK_PIECE
                                                              ELSE RED_PIECE)
            other == _get_evaluation_params(self, self.next_turn)
        IN  (20 * player.num_pieces + 40 * player.num_kings
                 + 10 * player.num_center + 3 * player.num_edge)
            - (20 * other.num_pieces + 40 * other.num_kings
                   + 10 * other.num_center + 3 * other.num_edge)

(***************************************************************************)
(* The search.  `cached` is the process-wide table of alphabeta_max_node   *)
(* and alphabeta_min_node, keyed on str(state.board) + turn.  A call is    *)
(* modelled in two parts: what it does before its loop (the table lookup,  *)
(* the leaf test, the no-successor case, the sort), and one iteration of   *)
(* its loop once the call on the successor at hand has returned.  Each     *)
(* part yields the table it leaves, the value it returns if it returns,    *)
(* and the frame it goes on with if it does not.  Where a value is used    *)
(* more than once it is bound as the one element of a set (x \in {e}), so  *)
(* that it is computed once.                                               *)
(***************************************************************************)
CachedState(v, depth, successor) ==
    [v |-> v, depth |-> depth, successor |-> successor]

\* str(state.board): the cells of the board, row by row.
RECURSIVE str(_, _)
str(board, n) ==
    IF n = HEIGHT * WIDTH THEN ""
    ELSE board[n \div WIDTH][n % WIDTH] \o str(board, n + 1)

state_str(state, turn) == str(state.board, 0) \o turn

NoTable == [key \in {} |-> None]

\* Mutation: the write drops every other entry of the table.
Put_alone(table, key, entry) == (key :> entry)

\* cached[key] = entry
Put(table, key, entry) == (key :> entry) @@ table

\* A returned (value, successor) pair; NoReturn while no return is pending.
Return(v, successor) == [set |-> TRUE, v |-> v, successor |-> successor]
NoReturn == [set |-> FALSE, v |-> 0, successor |-> None]
NoFrame == [role |-> "none"]

\* The key of each successor: s.get_utility().
RECURSIVE keys(_, _)
keys(successors, a) ==
    IF a > Len(successors) THEN <<>>
    ELSE <<get_utility(successors[a])>> \o keys(successors, a + 1)

\* successors.sort(key=lambda s: s.get_utility(), reverse=reverse): the sort
\* is stable, so successors of equal utility keep their generation order.
sort(successors, reverse) ==
    LET n == Len(successors)
        before(key, a, b) ==
            IF key[a] = key[b] THEN a < b
            ELSE IF reverse THEN key[a] > key[b] ELSE key[a] < key[b]
        at(key, p) ==
            CHOOSE a \in 1 .. n :
                p = 1 + Cardinality({b \in 1 .. n : before(key, b, a)})
        sorted(key) == [p \in 1 .. n |-> successors[at(key, p)]]
    IN  CHOOSE s \in {sorted(key) : key \in {keys(successors, 1)}} : TRUE

max(a, b) == IF a >= b THEN a ELSE b
min(a, b) == IF a <= b THEN a ELSE b

\* Mutation: a stored entry is returned whatever its depth.
alphabeta_max_node_any_depth(table, state, turn, alpha, beta, current_depth) ==
    LET key == state_str(state, turn)
        loop(sorted) ==
            [kind |-> "expand", cached |-> table, ret |-> NoReturn,
             frame |-> [role |-> "max", state |-> state, turn |-> turn,
                        alpha |-> alpha, beta |-> beta,
                        current_depth |-> current_depth,
                        successors |-> sorted, k |-> 1,
                        v |-> MIN_UTILITY, best |-> sorted[1]]]
        search(successors) ==
            IF Len(successors) = 0
            THEN [kind |-> "nomoves", frame |-> NoFrame,
                  cached |-> Put(table, key,
                                 CachedState(MIN_UTILITY, current_depth, None)),
                  ret |-> Return(MIN_UTILITY, None)]
            ELSE CHOOSE r \in {loop(sorted) :
                                  sorted \in {sort(successors, TRUE)}} : TRUE
    IN  IF key \in DOMAIN table
        THEN [kind |-> "cached", cached |-> table, frame |-> NoFrame,
              ret |-> Return(table[key].v, table[key].successor)]
        ELSE IF current_depth = 0 \/ red_win(state) \/ black_win(state)
        THEN [kind |-> "leaf", cached |-> table, frame |-> NoFrame,
              ret |-> Return(get_utility(state), None)]
        ELSE CHOOSE r \in {search(successors) :
                              successors \in {generate_successors(state)}} : TRUE

\* alphabeta_max_node up to its loop.
alphabeta_max_node(table, state, turn, alpha, beta, current_depth) ==
    LET key == state_str(state, turn)
        loop(sorted) ==
            [kind |-> "expand", cached |-> table, ret |-> NoReturn,
             frame |-> [role |-> "max", state |-> state, turn |-> turn,
                        alpha |-> alpha, beta |-> beta,
                        current_depth |-> current_depth,
                        successors |-> sorted, k |-> 1,
                        v |-> MIN_UTILITY, best |-> sorted[1]]]
        search(successors) ==
            IF Len(successors) = 0
            THEN [kind |-> "nomoves", frame |-> NoFrame,
                  cached |-> Put(table, key,
                                 CachedState(MIN_UTILITY, current_depth, None)),
                  ret |-> Return(MIN_UTILITY, None)]
            ELSE CHOOSE r \in {loop(sorted) :
                                  sorted \in {sort(successors, TRUE)}} : TRUE
    IN  IF key \in DOMAIN table /\ table[key].depth >= current_depth
        THEN [kind |-> "cached", cached |-> table, frame |-> NoFrame,
              ret |-> Return(table[key].v, table[key].successor)]
        ELSE IF current_depth = 0 \/ red_win(state) \/ black_win(state)
        THEN [kind |-> "leaf", cached |-> table, frame |-> NoFrame,
              ret |-> Return(get_utility(state), None)]
        ELSE CHOOSE r \in {search(successors) :
                              successors \in {generate_successors(state)}} : TRUE

\* Mutation: the State searched is returned in place of its best successor.
alphabeta_max_node_loop_itself(table, frame, tempval) ==
    LET key == state_str(frame.state, frame.turn)
        successor == frame.successors[frame.k]
        v == IF tempval > frame.v THEN tempval ELSE frame.v
        best == IF tempval > frame.v THEN successor ELSE frame.best
    IN  IF tempval > frame.beta
        THEN [kind |-> "cutoff", frame |-> NoFrame,
              cached |-> Put(table, key,
                             CachedState(v, frame.current_depth, successor)),
              ret |-> Return(v, successor)]
        ELSE LET alpha == max(frame.alpha, tempval)
                 written == Put(table, key,
                                CachedState(v, frame.current_depth, best))
             IN  IF frame.k = Len(frame.successors)
                 THEN [kind |-> "return", frame |-> NoFrame, cached |-> written,
                       ret |-> Return(v, frame.state)]
                 ELSE [kind |-> "next", cached |-> written, ret |-> NoReturn,
                       frame |-> [frame EXCEPT !.v = v, !.best = best,
                                               !.alpha = alpha,
                                               !.k = frame.k + 1]]

\* One iteration of the loop of alphabeta_max_node: the call on
\* frame.successors[frame.k] has returned tempval.
alphabeta_max_node_loop(table, frame, tempval) ==
    LET key == state_str(frame.state, frame.turn)
        successor == frame.successors[frame.k]
        v == IF tempval > frame.v THEN tempval ELSE frame.v
        best == IF tempval > frame.v THEN successor ELSE frame.best
    IN  IF tempval > frame.beta
        THEN [kind |-> "cutoff", frame |-> NoFrame,
              cached |-> Put(table, key,
                             CachedState(v, frame.current_depth, successor)),
              ret |-> Return(v, successor)]
        ELSE LET alpha == max(frame.alpha, tempval)
                 written == Put(table, key,
                                CachedState(v, frame.current_depth, best))
             IN  IF frame.k = Len(frame.successors)
                 THEN [kind |-> "return", frame |-> NoFrame, cached |-> written,
                       ret |-> Return(v, best)]
                 ELSE [kind |-> "next", cached |-> written, ret |-> NoReturn,
                       frame |-> [frame EXCEPT !.v = v, !.best = best,
                                               !.alpha = alpha,
                                               !.k = frame.k + 1]]

\* alphabeta_min_node up to its loop.
alphabeta_min_node(table, state, turn, alpha, beta, current_depth) ==
    LET key == state_str(state, turn)
        loop(sorted) ==
            [kind |-> "expand", cached |-> table, ret |-> NoReturn,
             frame |-> [role |-> "min", state |-> state, turn |-> turn,
                        alpha |-> alpha, beta |-> beta,
                        current_depth |-> current_depth,
                        successors |-> sorted, k |-> 1,
                        v |-> MAX_UTILITY, best |-> sorted[1]]]
        search(successors) ==
            IF Len(successors) = 0
            THEN [kind |-> "nomoves", frame |-> NoFrame,
                  cached |-> Put(table, key,
                                 CachedState(MAX_UTILITY, current_depth, None)),
                  ret |-> Return(MAX_UTILITY, None)]
            ELSE CHOOSE r \in {loop(sorted) :
                                  sorted \in {sort(successors, FALSE)}} : TRUE
    IN  IF key \in DOMAIN table /\ table[key].depth >= current_depth
        THEN [kind |-> "cached", cached |-> table, frame |-> NoFrame,
              ret |-> Return(table[key].v, table[key].successor)]
        ELSE IF current_depth = 0 \/ red_win(state) \/ black_win(state)
        THEN [kind |-> "leaf", cached |-> table, frame |-> NoFrame,
              ret |-> Return(get_utility(state), None)]
        ELSE CHOOSE r \in {search(successors) :
                              successors \in {generate_successors(state)}} : TRUE

\* One iteration of the loop of alphabeta_min_node.
alphabeta_min_node_loop(table, frame, tempval) ==
    LET key == state_str(frame.state, frame.turn)
        successor == frame.successors[frame.k]
        v == IF tempval < frame.v THEN tempval ELSE frame.v
        best == IF tempval < frame.v THEN successor ELSE frame.best
    IN  IF tempval < frame.alpha
        THEN [kind |-> "cutoff", frame |-> NoFrame,
              cached |-> Put(table, key,
                             CachedState(v, frame.current_depth, successor)),
              ret |-> Return(v, successor)]
        ELSE LET beta == min(frame.beta, tempval)
                 written == Put(table, key,
                                CachedState(v, frame.current_depth, best))
             IN  IF frame.k = Len(frame.successors)
                 THEN [kind |-> "return", frame |-> NoFrame, cached |-> written,
                       ret |-> Return(v, best)]
                 ELSE [kind |-> "next", cached |-> written, ret |-> NoReturn,
                       frame |-> [frame EXCEPT !.v = v, !.best = best,
                                               !.beta = beta,
                                               !.k = frame.k + 1]]

(***************************************************************************)
(* The generator and the evaluator once more, on a heap: a board is a list *)
(* object with an address, a State object holds the address of its board,  *)
(* deepcopy allocates a new board and an assignment to new_board[i][j]     *)
(* writes the board at that address.  Memory is the boards by address and  *)
(* the State objects in the order of their construction; every operator    *)
(* takes the memory it starts from and yields the memory it leaves with    *)
(* what it returns (State objects are returned by their index).            *)
(***************************************************************************)
Memory(boards, objects) == [heap |-> boards, objs |-> objects]

Yield(m, out) == [m |-> m, out |-> out]

\* Mutation: no copy is made, the new name denotes the same board.
deepcopy_same_board(m, a) == Yield(m, a)

\* deepcopy(board): a new board with the cells of the one at address a.
deepcopy(m, a) ==
    Yield([m EXCEPT !.heap = Append(m.heap, m.heap[a])], Len(m.heap) + 1)

\* board[i][j] = c, for the board at address a.
store(m, a, i, j, c) == [m EXCEPT !.heap[a][i][j] = c]

\* State(board, next_turn)
construct(m, a, next_turn) ==
    Yield([m EXCEPT !.objs = Append(m.objs, [board |-> a, next_turn |-> next_turn])],
          <<Len(m.objs) + 1>>)

\* _generate_jump_moves_for_piece and its loop from the k-th direction on:
\* what the jump in that direction returns (first), followed by what the
\* later directions return from the memory it left (both).
RECURSIVE heap_jump_moves_for_piece(_, _, _, _, _)
RECURSIVE heap_jump_moves_for_piece_loop(_, _, _, _, _, _)
heap_jump_moves_for_piece_loop(m, self, i, j, curr_board, k) ==
    LET next_player_piece == IF self.next_turn = RED_PIECE THEN RED_PIECE ELSE BLACK_PIECE
        piece_moves == IF self.next_turn = RED_PIECE THEN RedMoves ELSE BlackMoves
        next_player_king == IF self.next_turn = RED_PIECE THEN RED_KING ELSE BLACK_KING
        next_next_player_piece == IF self.next_turn = RED_PIECE THEN BLACK_PIECE ELSE RED_PIECE
        next_next_player_king == IF self.next_turn = RED_PIECE THEN BLACK_KING ELSE RED_KING
        x == piece_moves[k][1]
        y == piece_moves[k][2]
        promoted == \/ (i + x + x = 0 /\ self.next_turn = RED_PIECE)
                    \/ (i + x + x = HEIGHT - 1 /\ self.next_turn = BLACK_PIECE)
        jumped(c) ==
            store(store(store(c.m, c.out, i, j, EMPTY_SQUARE),
                        c.out, i + x, j + y, EMPTY_SQUARE),
                  c.out, i + x + x, j + y + y,
                  IF promoted THEN next_player_king ELSE next_player_piece)
        moved(c, n) ==
            IF promoted THEN construct(n, c.out, next_next_player_piece)
            ELSE heap_jump_moves_for_piece(n, self, i + x + x, j + y + y, c.out)
        first(c) == CHOOSE r \in {moved(c, n) : n \in {jumped(c)}} : TRUE
        then(f, rest) == Yield(rest.m, f.out \o rest.out)
        both(f) ==
            CHOOSE r \in {then(f, rest) :
                rest \in {heap_jump_moves_for_piece_loop(f.m, self, i, j,
                                                         curr_board, k + 1)}} : TRUE
    IN  IF k > Len(piece_moves) THEN Yield(m, <<>>)
        ELSE IF ~_can_jump(i + x, j + y, i + x + x, j + y + y, next_next_player_piece, next_next_player_king, m.heap[curr_board])
        THEN heap_jump_moves_for_piece_loop(m, self, i, j, curr_board, k + 1)
        ELSE CHOOSE r \in {both(f) :
                 f \in {first(c) : c \in {deepcopy(m, curr_board)}}} : TRUE

heap_jump_moves_for_piece(m, self, i, j, curr_board) ==
    LET piece_moves == IF self.next_turn = RED_PIECE THEN RedMoves ELSE BlackMoves
        next_next_player_piece == IF self.next_turn = RED_PIECE THEN BLACK_PIECE ELSE RED_PIECE
        next_next_player_king == IF self.next_turn = RED_PIECE THEN BLACK_KING ELSE RED_KING
        all_empty ==
            \A k \in DOMAIN piece_moves :
                ~_can_jump(i + piece_moves[k][1], j + piece_moves[k][2], i + 2 * piece_moves[k][1], j + 2 * piece_moves[k][2], next_next_player_piece, next_next_player_king, m.heap[curr_board])
    IN  IF all_empty /\ m.heap[self.board] = m.heap[curr_board] THEN Yield(m, <<>>)
        ELSE IF all_empty THEN construct(m, curr_board, next_next_player_piece)
        ELSE heap_jump_moves_for_piece_loop(m, self, i, j, curr_board, 1)

RECURSIVE heap_jump_moves_for_king(_, _, _, _, _)
RECURSIVE heap_jump_moves_for_king_loop(_, _, _, _, _, _)
heap_jump_moves_for_king_loop(m, self, i, j, curr_board, k) ==
    LET next_player_king == IF self.next_turn = RED_PIECE THEN RED_KING ELSE BLACK_KING
        next_next_player_piece == IF self.next_turn = RED_PIECE THEN BLACK_PIECE ELSE RED_PIECE
        next_next_player_king == IF self.next_turn = RED_PIECE THEN BLACK_KING ELSE RED_KING
        x == KingMoves[k][1]
        y == KingMoves[k][2]
        jumped(c) ==
            store(store(store(c.m, c.out, i, j, EMPTY_SQUARE),
                        c.out, i + x, j + y, EMPTY_SQUARE),
                  c.out, i + x + x, j + y + y, next_player_king)
        first(c) ==
            CHOOSE r \in {heap_jump_moves_for_king(n, self, i + x + x, j + y + y, c.out) :
                             n \in {jumped(c)}} : TRUE
        then(f, rest) == Yield(rest.m, f.out \o rest.out)
        both(f) ==
            CHOOSE r \in {then(f, rest) :
                rest \in {heap_jump_moves_for_king_loop(f.m, self, i, j,
                                                        curr_board, k + 1)}} : TRUE
    IN  IF k > Len(KingMoves) THEN Yield(m, <<>>)
        ELSE IF ~_can_jump(i + x, j + y, i + x + x, j + y + y, next_next_player_piece, next_next_player_king, m.heap[curr_board])
        THEN heap_jump_moves_for_king_loop(m, self, i, j, curr_board, k + 1)
        ELSE CHOOSE r \in {both(f) :
                 f \in {first(c) : c \in {deepcopy(m, curr_board)}}} : TRUE

heap_jump_moves_for_king(m, self, i, j, curr_board) ==
    LET next_next_player_piece == IF self.next_turn = RED_PIECE THEN BLACK_PIECE ELSE RED_PIECE
        next_next_player_king == IF self.next_turn = RED_PIECE THEN BLACK_KING ELSE RED_KING
        all_empty ==
            \A k \in DOMAIN KingMoves :
                ~_can_jump(i + KingMoves[k][1], j + KingMoves[k][2], i + 2 * KingMoves[k][1], j + 2 * KingMoves[k][2], next_next_player_piece, next_next_player_king, m.heap[curr_board])
    IN  IF all_empty /\ m.heap[self.board] = m.heap[curr_board] THEN Yield(m, <<>>)
        ELSE IF all_empty THEN construct(m, curr_board, next_next_player_piece)
        ELSE heap_jump_moves_for_king_loop(m, self, i, j, curr_board, 1)

\* _generate_jump_moves_for_curr: the copy is made before the cell is looked at.
heap_jump_moves_for_curr(m, self, i, j, turn) ==
    LET next_player_piece == IF turn = RED_PIECE THEN RED_PIECE ELSE BLACK_PIECE
        next_player_king == IF turn = RED_PIECE THEN RED_KING ELSE BLACK_KING
        chains(c) ==
            IF c.m.heap[self.board][i][j] = next_player_piece
            THEN heap_jump_moves_for_piece(c.m, self, i, j, c.out)
            ELSE IF c.m.heap[self.board][i][j] = next_player_king
            THEN heap_jump_moves_for_king(c.m, self, i, j, c.out)
            ELSE Yield(c.m, None)
    IN  CHOOSE r \in {chains(c) : c \in {deepcopy(m, self.board)}} : TRUE

\* _generate_jump_moves, from cell n on.
RECURSIVE heap_jump_moves(_, _, _)
heap_jump_moves(m, self, n) ==
    LET i == n \div WIDTH
        j == n % WIDTH
        next_player_piece == IF self.next_turn = RED_PIECE THEN RED_PIECE ELSE BLACK_PIECE
        next_player_king == IF self.next_turn = RED_PIECE THEN RED_KING ELSE BLACK_KING
        then(f, rest) == Yield(rest.m, f.out \o rest.out)
        both(f) ==
            CHOOSE r \in {then(f, rest) :
                             rest \in {heap_jump_moves(f.m, self, n + 1)}} : TRUE
    IN  IF n = HEIGHT * WIDTH THEN Yield(m, <<>>)
        ELSE IF \/ m.heap[self.board][i][j] = next_player_king
                \/ m.heap[self.board][i][j] = next_player_piece
        THEN CHOOSE r \in {both(f) :
                 f \in {heap_jump_moves_for_curr(m, self, i, j, self.next_turn)}} : TRUE
        ELSE heap_jump_moves(m, self, n + 1)

\* _generate_simple_moves, from cell n and the k-th direction of its piece on.
RECURSIVE heap_simple_moves(_, _, _, _, _)
heap_simple_moves(m, self, next_player, n, k) ==
    LET i == n \div WIDTH
        j == n % WIDTH
        next_player_piece == IF next_player = RED_PIECE THEN RED_PIECE ELSE BLACK_PIECE
        piece_moves == IF next_player = RED_PIECE THEN RedMoves ELSE BlackMoves
        next_player_king == IF next_player = RED_PIECE THEN RED_KING ELSE BLACK_KING
        next_next_player == IF next_player = RED_PIECE THEN BLACK_PIECE ELSE RED_PIECE
        cell == m.heap[self.board][i][j]
        moves == IF cell = next_player_piece THEN piece_moves
                 ELSE IF cell = next_player_king THEN KingMoves
                 ELSE <<>>
        x == moves[k][1]
        y == moves[k][2]
        open == /\ 0 <= i + x /\ i + x < HEIGHT /\ 0 <= j + y /\ j + y < WIDTH
                /\ m.heap[self.board][i + x][j + y] = EMPTY_SQUARE
        promoted == \/ (i + x = 0 /\ next_player = RED_PIECE)
                    \/ (i + x = HEIGHT - 1 /\ next_player = BLACK_PIECE)
        landed == IF cell = next_player_piece /\ ~promoted THEN next_player_piece
                  ELSE next_player_king
        stepped(c) ==
            construct(store(store(c.m, c.out, i, j, EMPTY_SQUARE),
                            c.out, i + x, j + y, landed),
                      c.out, next_next_player)
        then(f, rest) == Yield(rest.m, f.out \o rest.out)
        both(f) ==
            CHOOSE r \in {then(f, rest) :
                rest \in {heap_simple_moves(f.m, self, next_player, n, k + 1)}} : TRUE
    IN  IF n = HEIGHT * WIDTH THEN Yield(m, <<>>)
        ELSE IF k > Len(moves) THEN heap_simple_moves(m, self, next_player, n + 1, 1)
        ELSE IF ~open THEN heap_simple_moves(m, self, next_player, n, k + 1)
        ELSE CHOOSE r \in {both(f) :
                 f \in {stepped(c) : c \in {deepcopy(m, self.board)}}} : TRUE

heap_generate_successors(m, self) ==
    LET moves(jump_moves) ==
            IF Len(jump_moves.out) = 0
            THEN heap_simple_moves(jump_moves.m, self, self.next_turn, 0, 1)
            ELSE jump_moves
    IN  CHOOSE r \in {moves(jump_moves) :
                         jump_moves \in {heap_jump_moves(m, self, 0)}} : TRUE

\* _get_evaluation_params from cell n on: the memory it leaves.  The chains
\* generated to count num_can_attack are constructed and dropped.
RECURSIVE heap_get_evaluation_params(_, _, _, _)
heap_get_evaluation_params(m, self, player, n) ==
    LET i == n \div WIDTH
        j == n % WIDTH
        player_piece == player
        player_king == IF player = RED_PIECE THEN RED_KING ELSE BLACK_KING
    IN  IF n = HEIGHT * WIDTH THEN m
        ELSE IF \/ m.heap[self.board][i][j] = player_piece
                \/ m.heap[self.board][i][j] = player_king
        THEN CHOOSE r \in {heap_get_evaluation_params(f.m, self, player, n + 1) :
                 f \in {heap_jump_moves_for_curr(m, self, i, j, player_piece)}} : TRUE
        ELSE heap_get_evaluation_params(m, self, player, n + 1)

\* get_utility: the memory it leaves, and its value for the board it reads.
heap_get_utility(m, self) ==
    LET read == State(m.heap[self.board], self.next_turn)
        other(n) == heap_get_evaluation_params(n, self, self.next_turn, 0)
    IN  IF red_win(read) \/ black_win(read) THEN Yield(m, get_utility(read))
        ELSE CHOOSE r \in {Yield(other(n), get_utility(read)) :
                 n \in {heap_get_evaluation_params(m, self, get_next_turn(self.next_turn), 0)}} : TRUE

\* A search call in either role, up to its loop: a leaf calls get_utility;
\* any other State calls generate_successors and then, for the sort,
\* get_utility of each successor, from the k-th on.  The calls of the loop
\* are search calls on the successors.
RECURSIVE heap_sort(_, _, _)
heap_sort(m, successors, k) ==
    IF k > Len(successors) THEN m
    ELSE CHOOSE r \in {heap_sort(f.m, successors, k + 1) :
             f \in {heap_get_utility(m, m.objs[successors[k]])}} : TRUE

heap_search(m, self, current_depth) ==
    LET read == State(m.heap[self.board], self.next_turn)
    IN  IF current_depth = 0 \/ red_win(read) \/ black_win(read)
        THEN Yield(heap_get_utility(m, self).m, <<>>)
        ELSE CHOOSE r \in {Yield(heap_sort(f.m, f.out, 1), f.out) :
                 f \in {heap_generate_successors(m, self)}} : TRUE

(***************************************************************************)
(* Input boards.  The driver reads any 8 x 8 grid of the five characters.  *)
(* The boards checked hold at most MaxPieces men and kings, all of them on *)
(* the dark squares (i + j odd) of one corner region of RegionRows + 1     *)
(* rows and RegionCols + 1 columns: the top-left one, where red promotes,  *)
(* or the bottom-right one, where black does.  Each region touches a far   *)
(* row, an edge column and the centre squares.                             *)
(***************************************************************************)
MaxPieces == 3
RegionRows == 2
RegionCols == 4

Empty == [i \in Rows |-> [j \in Cols |-> EMPTY_SQUARE]]

Kinds == {RED_PIECE, RED_KING, BLACK_PIECE, BLACK_KING}

TopLeft ==
    {c \in Cells : (c[1] + c[2]) % 2 = 1 /\ c[1] <= RegionRows /\ c[2] <= RegionCols}

BottomRight ==
    {c \in Cells : /\ (c[1] + c[2]) % 2 = 1
                   /\ c[1] >= HEIGHT - 1 - RegionRows
                   /\ c[2] >= WIDTH - 1 - RegionCols}

RECURSIVE BoardsWith(_, _)
BoardsWith(squares, n) ==
    IF n = 0 THEN {Empty}
    ELSE LET fewer == BoardsWith(squares, n - 1)
         IN  fewer \cup
             {[t[1] EXCEPT ![t[2][1]][t[2][2]] = t[3]] :
                 t \in {u \in fewer \X squares \X Kinds :
                           u[1][u[2][1]][u[2][2]] = EMPTY_SQUARE}}

InitBoards == BoardsWith(TopLeft, MaxPieces) \cup BoardsWith(BottomRight, MaxPieces)

Sides == {RED_PIECE, BLACK_PIECE}

(***************************************************************************)
(* State of the model.                                                     *)
(*   state   the State at hand                                             *)
(*   done    the operations applied to `state` so far                      *)
(*   succs   what state.generate_successors() returned, once called        *)
(*   value   what state.get_utility() returned, once called                *)
(*   shown   the States passed through (displayed) so far, the first first *)
(*   cached  the table of the search                                       *)
(*   stack   the frames of the search calls in progress, the root first    *)
(*   ret     the (value, successor) a call has just returned, if any       *)
(*   pc      where the caller of the search is                             *)
(*   root    the root call in progress or last made                        *)
(*   event   what the last step of the search did to the table             *)
(*   writer  for each key of the table, the role of the call that wrote    *)
(*           the entry there and whether that call is still in its loop    *)
(*   heap    the boards by address, where boards are followed as objects   *)
(*   objs    the State objects constructed, where they are followed        *)
(***************************************************************************)
VARIABLES state, done, succs, value, shown, cached, stack, ret, pc, root, event,
          writer, heap, objs

vars == <<state, done, succs, value, shown, cached, stack, ret, pc, root, event,
          writer, heap, objs>>

search == <<cached, stack, ret, pc, root, event, writer>>

memory == <<heap, objs>>

NoRoot == [state |-> None, current_depth |-> 0, fresh |-> FALSE]
NoEvent == [kind |-> "none", role |-> "none", key |-> "", asked |-> 0, had |-> -1]

\* Legal play from an input board, MaxPlies moves deep.
MaxPlies == 1

GenInit ==
    /\ state \in {State(b, t) : b \in InitBoards, t \in Sides}
    /\ done = {}
    /\ succs = <<>>
    /\ value = 0
    /\ shown = <<state>>
    /\ cached = NoTable
    /\ stack = <<>>
    /\ ret = NoReturn
    /\ pc = "generator"
    /\ root = NoRoot
    /\ event = NoEvent
    /\ writer = NoTable
    /\ heap = <<>>
    /\ objs = <<>>

CallGenerateSuccessors ==
    /\ "generate_successors" \notin done
    /\ succs' = generate_successors(state)
    /\ done' = done \cup {"generate_successors"}
    /\ UNCHANGED <<state, value, shown>>
    /\ UNCHANGED search
    /\ UNCHANGED memory

CallGetUtility ==
    /\ "get_utility" \notin done
    /\ value' = get_utility(state)
    /\ done' = done \cup {"get_utility"}
    /\ UNCHANGED <<state, succs, shown>>
    /\ UNCHANGED search
    /\ UNCHANGED memory

\* One legal move: any of the successors becomes the State at hand.
Play ==
    /\ "generate_successors" \in done
    /\ Len(shown) <= MaxPlies
    /\ \E k \in 1 .. Len(succs) :
           /\ state' = succs[k]
           /\ shown' = Append(shown, succs[k])
    /\ done' = {}
    /\ succs' = <<>>
    /\ value' = 0
    /\ UNCHANGED search
    /\ UNCHANGED memory

GenNext == CallGenerateSuccessors \/ CallGetUtility \/ Play

SpecGen == GenInit /\ [][GenNext]_vars

(***************************************************************************)
(* Legal play from ring boards as well.  A ring board holds one man or     *)
(* king on RingStart and, on each of the four squares diagonally around    *)
(* the square two rows below it, nothing or a man or a king of the other   *)
(* colour: the boards where a chain of jumps can go round and end on the   *)
(* square it started from.                                                 *)
(***************************************************************************)
RingStart == <<2, 3>>

RingSquares == {<<3, 4>>, <<5, 4>>, <<5, 2>>, <<3, 2>>}

RingBoards ==
    {[i \in Rows |-> [j \in Cols |->
         IF <<i, j>> = RingStart THEN p[1]
         ELSE IF <<i, j>> \in RingSquares /\ p[2][<<i, j>>] = "man"
              THEN IF p[1] \in {RED_PIECE, RED_KING} THEN BLACK_PIECE ELSE RED_PIECE
         ELSE IF <<i, j>> \in RingSquares /\ p[2][<<i, j>>] = "king"
              THEN IF p[1] \in {RED_PIECE, RED_KING} THEN BLACK_KING ELSE RED_KING
         ELSE EMPTY_SQUARE]] :
     p \in Kinds \X [RingSquares -> {"none", "man", "king"}]}

RingInit ==
    /\ state \in {State(b, t) : b \in RingBoards \cup InitBoards, t \in Sides}
    /\ done = {}
    /\ succs = <<>>
    /\ value = 0
    /\ shown = <<state>>
    /\ cached = NoTable
    /\ stack = <<>>
    /\ ret = NoReturn
    /\ pc = "generator"
    /\ root = NoRoot
    /\ event = NoEvent
    /\ writer = NoTable
    /\ heap = <<>>
    /\ objs = <<>>

SpecRing == RingInit /\ [][GenNext]_vars

(***************************************************************************)
(* The search as steps.  Enter is a call statement together with the part  *)
(* of the callee before its loop: the callee either returns at once (ret   *)
(* is set) or gets a frame on the stack.  The four steps below are the     *)
(* call statements and the loop bodies of the two roles.                   *)
(***************************************************************************)
Enter(role, callee, turn, alpha, beta, current_depth) ==
    \E key \in {state_str(callee, turn)} :
    \E r \in {IF role = "max"
              THEN alphabeta_max_node(cached, callee, turn, alpha, beta, current_depth)
              ELSE alphabeta_min_node(cached, callee, turn, alpha, beta, current_depth)} :
        /\ cached' = r.cached
        /\ ret' = r.ret
        /\ stack' = IF r.kind = "expand" THEN Append(stack, r.frame) ELSE stack
        /\ writer' = IF r.kind = "nomoves"
                     THEN Put(writer, key, [role |-> role, live |-> FALSE])
                     ELSE writer
        /\ event' = [kind |-> r.kind, role |-> role, key |-> key,
                     asked |-> current_depth,
                     had |-> IF key \in DOMAIN cached THEN cached[key].depth ELSE -1]

Leave(role, result) ==
    \E frame \in {stack[Len(stack)]} :
    \E key \in {state_str(frame.state, frame.turn)} :
    \E r \in {result} :
        /\ cached' = r.cached
        /\ ret' = r.ret
        /\ stack' = IF r.kind = "next"
                    THEN [stack EXCEPT ![Len(stack)] = r.frame]
                    ELSE SubSeq(stack, 1, Len(stack) - 1)
        /\ writer' = Put(writer, key, [role |-> role, live |-> r.kind = "next"])
        /\ event' = [kind |-> r.kind, role |-> role, key |-> key,
                     asked |-> frame.current_depth,
                     had |-> IF key \in DOMAIN cached THEN cached[key].depth ELSE -1]

\* alphabeta_max_node calls alphabeta_min_node on the successor at hand.
MaxCallsMin ==
    /\ pc = "search"
    /\ stack # <<>>
    /\ ~ret.set
    /\ stack[Len(stack)].role = "max"
    /\ LET frame == stack[Len(stack)]
       IN  Enter("min", frame.successors[frame.k], get_next_turn(frame.turn),
                 frame.alpha, frame.beta, frame.current_depth - 1)
    /\ UNCHANGED <<state, done, succs, value, shown, pc, root>>
    /\ UNCHANGED memory

\* alphabeta_min_node calls alphabeta_max_node on the successor at hand.
MinCallsMax ==
    /\ pc = "search"
    /\ stack # <<>>
    /\ ~ret.set
    /\ stack[Len(stack)].role = "min"
    /\ LET frame == stack[Len(stack)]
       IN  Enter("max", frame.successors[frame.k], get_next_turn(frame.turn),
                 frame.alpha, frame.beta, frame.current_depth - 1)
    /\ UNCHANGED <<state, done, succs, value, shown, pc, root>>
    /\ UNCHANGED memory

\* The rest of the loop body of alphabeta_max_node, and its return.
MaxLoop ==
    /\ pc = "search"
    /\ stack # <<>>
    /\ ret.set
    /\ stack[Len(stack)].role = "max"
    /\ Leave("max", alphabeta_max_node_loop(cached, stack[Len(stack)], ret.v))
    /\ UNCHANGED <<state, done, succs, value, shown, pc, root>>
    /\ UNCHANGED memory

\* The rest of the loop body of alphabeta_min_node, and its return.
MinLoop ==
    /\ pc = "search"
    /\ stack # <<>>
    /\ ret.set
    /\ stack[Len(stack)].role = "min"
    /\ Leave("min", alphabeta_min_node_loop(cached, stack[Len(stack)], ret.v))
    /\ UNCHANGED <<state, done, succs, value, shown, pc, root>>
    /\ UNCHANGED memory

(***************************************************************************)
(* Root calls.  A root call is the driver's: alphabeta_max_node on the     *)
(* State at hand, for the side to move, with the full window.  Here it is  *)
(* made at any depth up to MaxDepth, and up to MaxRootCalls times in a row *)
(* on the same State without clearing the table, as the driver never       *)
(* clears it.                                                              *)
(***************************************************************************)
MaxDepth == 5
MaxRootCalls == 2
CornerRows == 1
CornerCols == 2
CornerPieces == 2

Corner == {c \in TopLeft : c[1] <= CornerRows /\ c[2] <= CornerCols}

CornerBoards == BoardsWith(Corner, CornerPieces)

SearchInit ==
    /\ state \in {State(b, t) : b \in CornerBoards, t \in Sides}
    /\ done = {}
    /\ succs = <<>>
    /\ value = 0
    /\ shown = <<>>
    /\ cached = NoTable
    /\ stack = <<>>
    /\ ret = NoReturn
    /\ pc = "idle"
    /\ root = NoRoot
    /\ event = NoEvent
    /\ writer = NoTable
    /\ heap = <<>>
    /\ objs = <<>>

RootCall ==
    /\ pc = "idle"
    /\ Len(shown) < MaxRootCalls
    /\ \E d \in 0 .. MaxDepth :
           /\ Enter("max", state, state.next_turn, MIN_UTILITY, MAX_UTILITY, d)
           /\ root' = [state |-> state, current_depth |-> d,
                       fresh |-> cached = NoTable]
    /\ pc' = "search"
    /\ shown' = Append(shown, state)
    /\ UNCHANGED <<state, done, succs, value>>
    /\ UNCHANGED memory

\* The root call has returned; the next one may be made.
RootReturn ==
    /\ pc = "search"
    /\ stack = <<>>
    /\ ret.set
    /\ pc' = "idle"
    /\ ret' = NoReturn
    /\ event' = NoEvent
    /\ UNCHANGED <<state, done, succs, value, shown, cached, stack, root>>
    /\ UNCHANGED <<writer, heap, objs>>

SearchNext ==
    RootCall \/ RootReturn \/ MaxCallsMin \/ MinCallsMax \/ MaxLoop \/ MinLoop

SpecSearch == SearchInit /\ [][SearchNext]_vars

(***************************************************************************)
(* The driver: red moves first, the State at hand is displayed, and while  *)
(* neither side has won the search is called at DEPTH_LIMIT and its        *)
(* successor becomes the State at hand and is displayed.  display() on a   *)
(* missing successor raises AttributeError, which nothing catches.  The    *)
(* runs followed stop after MaxShown displayed States.  They start from    *)
(* the boards of at most GamePieces men and kings on three dark squares:   *)
(* two that touch in the top-left corner, where a man can be blocked, and  *)
(* one across the board, from where kings approach.                        *)
(***************************************************************************)
MaxShown == 24
GamePieces == 2

GameSquares == {<<0, 1>>, <<1, 0>>, <<1, 6>>}

GameBoards == BoardsWith(GameSquares, GamePieces)

GameInit ==
    /\ state \in {State(b, RED_PIECE) : b \in GameBoards}
    /\ done = {}
    /\ succs = <<>>
    /\ value = 0
    /\ shown = <<state>>
    /\ cached = NoTable
    /\ stack = <<>>
    /\ ret = NoReturn
    /\ pc = "while"
    /\ root = NoRoot
    /\ event = NoEvent
    /\ writer = NoTable
    /\ heap = <<>>
    /\ objs = <<>>

\* The loop test holds and the search is called.
Move ==
    /\ pc = "while"
    /\ ~(red_win(state) \/ black_win(state))
    /\ Len(shown) < MaxShown
    /\ Enter("max", state, state.next_turn, MIN_UTILITY, MAX_UTILITY, DEPTH_LIMIT)
    /\ root' = [state |-> state, current_depth |-> DEPTH_LIMIT,
                fresh |-> cached = NoTable]
    /\ pc' = "search"
    /\ UNCHANGED <<state, done, succs, value, shown>>
    /\ UNCHANGED memory

\* _, state = alphabeta_max_node(...); state.display()
Assign ==
    /\ pc = "search"
    /\ stack = <<>>
    /\ ret.set
    /\ state' = ret.successor
    /\ IF ret.successor = None
       THEN pc' = "error" /\ shown' = shown
       ELSE pc' = "while" /\ shown' = Append(shown, ret.successor)
    /\ ret' = NoReturn
    /\ event' = NoEvent
    /\ UNCHANGED <<done, succs, value, cached, stack, root>>
    /\ UNCHANGED <<writer, heap, objs>>

\* The loop test fails: one side has won and the program ends.
Exit ==
    /\ pc = "while"
    /\ red_win(state) \/ black_win(state)
    /\ pc' = "exit"
    /\ UNCHANGED <<state, done, succs, value, shown, cached, stack, ret, root, event>>
    /\ UNCHANGED <<writer, heap, objs>>

GameNext ==
    Move \/ Assign \/ Exit \/ MaxCallsMin \/ MinCallsMax \/ MaxLoop \/ MinLoop

SpecGame == GameInit /\ [][GameNext]_vars

(***************************************************************************)
(* The operations on objects in memory.  The input board is the board at   *)
(* address 1 and the State of the driver the first object; each step       *)
(* applies one operation to any State object constructed so far, the ones  *)
(* an earlier operation returned included, MaxHeapOps operations in all.   *)
(* `shown` lists the operations applied, `succs` holds the objects the     *)
(* last one returned and `state` stays the input State as a value.         *)
(***************************************************************************)
MaxHeapOps == 2
HeapPieces == 2

HeapBoards == BoardsWith(TopLeft, HeapPieces)

HeapInit ==
    /\ state \in {State(b, t) : b \in HeapBoards, t \in Sides}
    /\ heap = <<state.board>>
    /\ objs = <<[board |-> 1, next_turn |-> state.next_turn]>>
    /\ done = {}
    /\ succs = <<>>
    /\ value = 0
    /\ shown = <<>>
    /\ cached = NoTable
    /\ stack = <<>>
    /\ ret = NoReturn
    /\ pc = "heap"
    /\ root = NoRoot
    /\ event = NoEvent
    /\ writer = NoTable

Operated(op, self, r) ==
    /\ heap' = r.m.heap
    /\ objs' = r.m.objs
    /\ shown' = Append(shown, [op |-> op, self |-> self, objs |-> Len(objs)])
    /\ UNCHANGED <<state, done>>
    /\ UNCHANGED search

HeapGenerateSuccessors ==
    /\ pc = "heap"
    /\ Len(shown) < MaxHeapOps
    /\ \E self \in 1 .. Len(objs) :
       \E r \in {heap_generate_successors(Memory(heap, objs), objs[self])} :
           /\ Operated("generate_successors", self, r)
           /\ succs' = r.out
           /\ UNCHANGED value

HeapGetUtility ==
    /\ pc = "heap"
    /\ Len(shown) < MaxHeapOps
    /\ \E self \in 1 .. Len(objs) :
       \E r \in {heap_get_utility(Memory(heap, objs), objs[self])} :
           /\ Operated("get_utility", self, r)
           /\ value' = r.out
           /\ UNCHANGED succs

HeapSearch ==
    /\ pc = "heap"
    /\ Len(shown) < MaxHeapOps
    /\ \E self \in 1 .. Len(objs), current_depth \in 0 .. 1 :
       \E r \in {heap_search(Memory(heap, objs), objs[self], current_depth)} :
           /\ Operated("search", self, r)
           /\ succs' = r.out
           /\ UNCHANGED value

HeapNext == HeapGenerateSuccessors \/ HeapGetUtility \/ HeapSearch

SpecHeap == HeapInit /\ [][HeapNext]_vars

(***************************************************************************)
(* The rules of the game, stated on boards and apart from the generator:   *)
(* what the properties below compare the code with.                        *)
(***************************************************************************)
At(b, c) == b[c[1]][c[2]]

Other(t) == IF t = RED_PIECE THEN BLACK_PIECE ELSE RED_PIECE
ManOf(t) == IF t = RED_PIECE THEN RED_PIECE ELSE BLACK_PIECE
KingOf(t) == IF t = RED_PIECE THEN RED_KING ELSE BLACK_KING
Own(t) == {ManOf(t), KingOf(t)}
FarRow(t) == IF t = RED_PIECE THEN 0 ELSE HEIGHT - 1
Forward(t) == IF t = RED_PIECE THEN {<<-1, -1>>, <<-1, 1>>} ELSE {<<1, -1>>, <<1, 1>>}
Diagonals == {<<-1, -1>>, <<-1, 1>>, <<1, -1>>, <<1, 1>>}
Reach(b, c, t) == IF At(b, c) = ManOf(t) THEN Forward(t) ELSE Diagonals

Count(b, chars) == Cardinality({c \in Cells : At(b, c) \in chars})

\* The piece of side t on square c can jump, in one of the directions dirs,
\* over an adjacent piece of the other side into the empty square beyond.
CaptureFrom(b, c, dirs, t) ==
    \E d \in dirs :
        /\ <<c[1] + 2 * d[1], c[2] + 2 * d[2]>> \in Cells
        /\ b[c[1] + d[1]][c[2] + d[2]] \in Own(Other(t))
        /\ b[c[1] + 2 * d[1]][c[2] + 2 * d[2]] = EMPTY_SQUARE

CaptureAvailable(s) ==
    \E c \in Cells :
        /\ At(s.board, c) \in Own(s.next_turn)
        /\ CaptureFrom(s.board, c, Reach(s.board, c, s.next_turn), s.next_turn)

\* The piece of side t on square c can step to a diagonal neighbour.
StepFrom(b, c, t) ==
    \E d \in Reach(b, c, t) :
        /\ <<c[1] + d[1], c[2] + d[2]>> \in Cells
        /\ b[c[1] + d[1]][c[2] + d[2]] = EMPTY_SQUARE

\* child is parent after one piece of the side to move went one square along
\* a diagonal into an empty cell, everything else in place.
IsSimpleMove(parent, child) ==
    \E c \in Cells, d \in Diagonals :
        LET to == <<c[1] + d[1], c[2] + d[2]>>
        IN  /\ to \in Cells
            /\ At(parent.board, c) \in Own(parent.next_turn)
            /\ At(parent.board, to) = EMPTY_SQUARE
            /\ At(child.board, to) \in Own(parent.next_turn)
            /\ child.board = [parent.board EXCEPT ![c[1]][c[2]] = EMPTY_SQUARE,
                                                  ![to[1]][to[2]] = At(child.board, to)]

SameCounts(parent, child) ==
    /\ Count(child.board, Own(RED_PIECE)) = Count(parent.board, Own(RED_PIECE))
    /\ Count(child.board, Own(BLACK_PIECE)) = Count(parent.board, Own(BLACK_PIECE))

NoManOnFarRow(s) ==
    \A t \in Sides, j \in Cols : s.board[FarRow(t)][j] # ManOf(t)

\* Every finished chain the generator finds for the men and kings of the
\* side to move, with its landing square.
ChainsOf(s) ==
    LET cell == [i \in Rows |-> [j \in Cols |->
            IF s.board[i][j] \in Own(s.next_turn)
            THEN _generate_jump_moves_for_curr(s, i, j, s.next_turn)
            ELSE <<>>]]
    IN  ForCells(cell, 0)

\* The chains of the men alone.
ManChainsOf(s) ==
    LET cell == [i \in Rows |-> [j \in Cols |->
            IF s.board[i][j] = ManOf(s.next_turn)
            THEN _generate_jump_moves_for_curr(s, i, j, s.next_turn)
            ELSE <<>>]]
    IN  ForCells(cell, 0)

Generated == "generate_successors" \in done
Evaluated == "get_utility" \in done

(***************************************************************************)
(* C1  Forced capture.  If a man or king of the side to move has a capture *)
(* available, every State generate_successors returned has strictly fewer  *)
(* pieces of the opponent than the parent; if none has, every returned     *)
(* State is the parent after a one-square diagonal move into an empty      *)
(* cell, with both sides' piece counts unchanged.                          *)
(***************************************************************************)
C1_ForcedCapture ==
    Generated =>
        IF CaptureAvailable(state)
        THEN \A k \in 1 .. Len(succs) :
                 Count(succs[k].board, Own(Other(state.next_turn)))
                     < Count(state.board, Own(Other(state.next_turn)))
        ELSE \A k \in 1 .. Len(succs) :
                 IsSimpleMove(state, succs[k]) /\ SameCounts(state, succs[k])

\* A capture is available while some piece of the mover could also step:
\* only captures were returned.
C1_Witness ==
    /\ Generated
    /\ CaptureAvailable(state)
    /\ \E c \in Cells : /\ At(state.board, c) \in Own(state.next_turn)
                        /\ StepFrom(state.board, c, state.next_turn)
    /\ Len(succs) > 0

(***************************************************************************)
(* C4  Whole-chain successors.  Every returned State has the opponent of   *)
(* the parent's side to move as next_turn; when chains exist the returned  *)
(* States are those of the chains; and every chain ends on a square from   *)
(* which the jumping piece has no further capture, or on the far row where *)
(* a man has just become a king.                                           *)
(***************************************************************************)
Finished(s, chain) ==
    LET t == s.next_turn
        p == At(chain.board, chain.at)
    IN  \/ /\ p \in Own(t)
           /\ ~CaptureFrom(chain.board, chain.at, Reach(chain.board, chain.at, t), t)
        \/ /\ p = KingOf(t)
           /\ chain.at[1] = FarRow(t)
           /\ Count(chain.board, {KingOf(t)}) = Count(s.board, {KingOf(t)}) + 1

C4_WholeChain ==
    Generated =>
        LET chains == ChainsOf(state)
        IN  /\ \A k \in 1 .. Len(succs) :
                   succs[k].next_turn = Other(state.next_turn)
            /\ Len(chains) > 0 =>
                   \A k \in 1 .. Len(succs) :
                       \E n \in 1 .. Len(chains) :
                           succs[k] = State(chains[n].board, chains[n].next_turn)
            /\ \A n \in 1 .. Len(chains) : Finished(state, chains[n])

\* A chain of two jumps or more was returned as one successor.
C4_Witness ==
    /\ Generated
    /\ \E k \in 1 .. Len(succs) :
           Count(succs[k].board, Own(Other(state.next_turn))) + 2
               <= Count(state.board, Own(Other(state.next_turn)))

(***************************************************************************)
(* C5  Promotion.  In no returned State does a man of the mover stand on   *)
(* its far row unless it stood there, on that square, in the parent; a     *)
(* chain of a man that ends with a king ends on the far row, the turn      *)
(* passed to the opponent; and from an input board with no man on its own  *)
(* far row, legal play reaches no State with a man on its own far row.     *)
(***************************************************************************)
C5_Promotion ==
    /\ Generated =>
           LET t == state.next_turn
               chains == ManChainsOf(state)
           IN  /\ \A k \in 1 .. Len(succs), j \in Cols :
                      succs[k].board[FarRow(t)][j] = ManOf(t)
                          => state.board[FarRow(t)][j] = ManOf(t)
               /\ \A n \in 1 .. Len(chains) :
                      /\ chains[n].next_turn = Other(t)
                      /\ At(chains[n].board, chains[n].at) \in Own(t)
                      /\ At(chains[n].board, chains[n].at) = KingOf(t)
                             => chains[n].at[1] = FarRow(t)
    /\ NoManOnFarRow(shown[1]) => NoManOnFarRow(state)

\* A man jumped onto its far row, became a king there, and the chain ended
\* although, as a king, it could have captured again from that square.
C5_Witness ==
    /\ Generated
    /\ \E n \in 1 .. Len(ManChainsOf(state)) :
           LET chain == ManChainsOf(state)[n]
           IN  /\ At(chain.board, chain.at) = KingOf(state.next_turn)
               /\ CaptureFrom(chain.board, chain.at, Diagonals, state.next_turn)
               /\ \E k \in 1 .. Len(succs) : succs[k].board = chain.board

(***************************************************************************)
(* C9  Terminal utility orientation.  On a board where exactly one colour  *)
(* has no piece, get_utility is MAX_UTILITY when the side that just moved  *)
(* (the opposite of next_turn) is the colour with pieces and MIN_UTILITY   *)
(* when it is the colour without; the value for the other next_turn is its *)
(* negation.                                                               *)
(***************************************************************************)
OneColourGone(b) ==
    (Count(b, Own(RED_PIECE)) = 0) # (Count(b, Own(BLACK_PIECE)) = 0)

C9_TerminalUtility ==
    (Evaluated /\ OneColourGone(state.board)) =>
        /\ value = IF Count(state.board, Own(Other(state.next_turn))) > 0
                   THEN MAX_UTILITY
                   ELSE MIN_UTILITY
        /\ get_utility(State(state.board, Other(state.next_turn))) = 0 - value

\* The side that just moved has nothing left: the worst value.
C9_Witness ==
    /\ Evaluated
    /\ OneColourGone(state.board)
    /\ Count(state.board, Own(Other(state.next_turn))) = 0
    /\ value = MIN_UTILITY

(***************************************************************************)
(* C10  Heuristic formula, in twentieths.  As first stated: for a board    *)
(* where both colours have pieces, get_utility is                          *)
(*   20 * pieces + 40 * kings + 10 * center + 3 * edge                     *)
(* of the side that just moved minus the same of the side to move, with    *)
(* pieces the men and kings, center the pieces on the four centre squares  *)
(* (rows 3-4, columns 3-4), edge the pieces in column 0 or WIDTH - 1.      *)
(***************************************************************************)
FourCentre == {c \in Cells : c[1] \in 3 .. 4 /\ c[2] \in 3 .. 4}

CentreCross ==
    {c \in Cells : \/ (c[1] \in 2 .. 5 /\ c[2] \in 3 .. 4)
                   \/ (c[2] \in 2 .. 5 /\ c[1] \in 3 .. 4)}

EdgeColumns == {c \in Cells : c[2] = 0 \/ c[2] = WIDTH - 1}

CountIn(b, chars, cells) == Cardinality({c \in cells : At(b, c) \in chars})

ScoreAsStated(b, t) ==
    20 * Count(b, Own(t)) + 40 * Count(b, {KingOf(t)})
        + 10 * CountIn(b, Own(t), FourCentre) + 3 * CountIn(b, Own(t), EdgeColumns)

ScoreAmended(b, t) ==
    20 * Count(b, {ManOf(t)}) + 40 * Count(b, {KingOf(t)})
        + 10 * CountIn(b, Own(t), CentreCross) + 3 * CountIn(b, Own(t), EdgeColumns)

BothColours(b) == Count(b, Own(RED_PIECE)) > 0 /\ Count(b, Own(BLACK_PIECE)) > 0

C10_AsStated ==
    (Evaluated /\ BothColours(state.board)) =>
        value = ScoreAsStated(state.board, Other(state.next_turn))
                    - ScoreAsStated(state.board, state.next_turn)

(***************************************************************************)
(* C10, amended: the same with pieces the men alone (a king adds 40 and    *)
(* nothing else) and center the pieces on the twelve squares of the centre *)
(* cross (rows 2-5 of columns 3-4 and columns 2-5 of rows 3-4).            *)
(***************************************************************************)
C10_Heuristic ==
    (Evaluated /\ BothColours(state.board)) =>
        value = ScoreAmended(state.board, Other(state.next_turn))
                    - ScoreAmended(state.board, state.next_turn)

\* A king, a piece on the cross outside the four centre squares and a piece
\* on an edge column all count.
C10_Witness ==
    /\ Evaluated
    /\ BothColours(state.board)
    /\ Count(state.board, {RED_KING, BLACK_KING}) > 0
    /\ CountIn(state.board, Kinds, CentreCross \ FourCentre) > 0
    /\ CountIn(state.board, Kinds, EdgeColumns) > 0

(***************************************************************************)
(* Plain minimax, the reference the search is compared with: no pruning    *)
(* and no table, the same successors, the same leaf rule (depth 0 or a     *)
(* side without pieces), the same get_utility at the leaves, and for a     *)
(* side without a move the extreme value against it.                       *)
(***************************************************************************)
Highest(values) == CHOOSE v \in values : \A w \in values : w <= v
Lowest(values) == CHOOSE v \in values : \A w \in values : v <= w

RECURSIVE minimax(_, _, _)
minimax(s, maximising, d) ==
    LET over(moves) ==
            IF moves = {} THEN IF maximising THEN MIN_UTILITY ELSE MAX_UTILITY
            ELSE CHOOSE v \in {IF maximising THEN Highest(values) ELSE Lowest(values) :
                                  values \in {{minimax(x, ~maximising, d - 1) :
                                                  x \in moves}}} : TRUE
    IN  IF d = 0 \/ red_win(s) \/ black_win(s) THEN get_utility(s)
        ELSE CHOOSE v \in {over({q[k] : k \in DOMAIN q}) :
                              q \in {generate_successors(s)}} : TRUE

\* A root call has returned and nobody has taken its result yet.
Returned == pc = "search" /\ stack = <<>> /\ ret.set

(***************************************************************************)
(* C2  Alpha-beta equals minimax: a root call                              *)
(* alphabeta_max_node(state, state.next_turn, MIN_UTILITY, MAX_UTILITY, d) *)
(* started with an empty table returns the value of plain depth-d minimax. *)
(***************************************************************************)
C2_AlphaBetaIsMinimax ==
    (Returned /\ root.fresh) =>
        ret.v = minimax(root.state, TRUE, root.current_depth)

(***************************************************************************)
(* C3  Staleness: a call returns the stored (value, successor) only when   *)
(* the entry under its key has a stored depth >= the depth asked for; when *)
(* an entry of smaller depth is there, the call does not return it but     *)
(* searches the position again.                                            *)
(***************************************************************************)
CallKinds == {"cached", "leaf", "nomoves", "expand"}

C3_Staleness ==
    /\ event.kind = "cached" =>
           /\ event.key \in DOMAIN cached
           /\ cached[event.key].depth >= event.asked
           /\ ret = Return(cached[event.key].v, cached[event.key].successor)
    /\ (event.kind \in CallKinds /\ 0 <= event.had /\ event.had < event.asked) =>
           event.kind \in {"nomoves", "expand"}

\* A depth-3 query finds a depth-1 entry and searches the position again.
C3_Witness ==
    /\ event.kind = "expand"
    /\ event.had = 1
    /\ event.asked = 3
    /\ stack[Len(stack)].current_depth = 3
    /\ state_str(stack[Len(stack)].state, stack[Len(stack)].turn) = event.key

(***************************************************************************)
(* C7  Game run progress, its safety half: whenever the driver has         *)
(* displayed a State and is back at its loop test, the States displayed so *)
(* far do not contain the same (board, side to move) twice.                *)
(***************************************************************************)
C7_NoRepeat ==
    pc = "while" =>
        \A i, j \in 1 .. Len(shown) : i < j => shown[i] # shown[j]

(***************************************************************************)
(* C8  No legal move is a loss, not an error: the driver never goes on     *)
(* with a missing State as the State at hand, and the run does not end in  *)
(* an exception.                                                           *)
(***************************************************************************)
C8_NoMoveIsLoss == state # None /\ pc # "error"

(***************************************************************************)
(* C11  Lost positions are scored against the side to move in both roles:  *)
(* a MAX-role call with depth >= 1 on a State whose side to move has no    *)
(* piece left, or has pieces but no legal move, returns MIN_UTILITY, and a *)
(* MIN-role call with depth >= 1 on such a State returns MAX_UTILITY.      *)
(***************************************************************************)
\* The State of the call that has just returned without entering its loop.
Callee ==
    IF stack = <<>> THEN root.state
    ELSE stack[Len(stack)].successors[stack[Len(stack)].k]

ReturnedAtOnce ==
    pc = "search" /\ ret.set /\ event.kind \in {"cached", "leaf", "nomoves"}

NoPieces(s) == Count(s.board, Own(s.next_turn)) = 0

NoLegalMove(s) == ~NoPieces(s) /\ Len(generate_successors(s)) = 0

C11_LostIsAgainstSideToMove ==
    (ReturnedAtOnce /\ event.asked >= 1 /\ (NoPieces(Callee) \/ NoLegalMove(Callee))) =>
        ret.v = IF event.role = "max" THEN MIN_UTILITY ELSE MAX_UTILITY

(***************************************************************************)
(* C12  Cache entries are not shared between roles: over a game run, an    *)
(* entry returned by a MAX-role call was written by a MAX-role call and an *)
(* entry returned by a MIN-role call was written by a MIN-role call.       *)
(***************************************************************************)
C12_SameRole ==
    event.kind = "cached" => writer[event.key].role = event.role

(***************************************************************************)
(* C13  Chosen move is legal: a successor returned by a search call for a  *)
(* State, freshly computed, at a cutoff or from the table, is one of       *)
(* generate_successors of that State; and every State the driver displays  *)
(* after the first is one of generate_successors of the one before.        *)
(***************************************************************************)
Successors(s) ==
    LET moves == generate_successors(s) IN {moves[k] : k \in DOMAIN moves}

C13_ChosenMoveIsLegal ==
    /\ (pc = "search" /\ ret.set /\ ret.successor # None) =>
           ret.successor \in Successors(Callee)
    /\ (pc = "while" /\ Len(shown) >= 2) =>
           shown[Len(shown)] \in Successors(shown[Len(shown) - 1])

\* A root call of a game is answered from the table with a successor.
C13_Witness ==
    /\ pc = "search"
    /\ stack = <<>>
    /\ ret.set
    /\ event.kind = "cached"
    /\ ret.successor # None
    /\ Len(shown) >= 2

(***************************************************************************)
(* C14  No read of an unfinished search: an entry returned by a call was   *)
(* not written by a call for the same key that is still in its loop.       *)
(***************************************************************************)
C14_NoUnfinishedRead ==
    event.kind = "cached" => ~writer[event.key].live

(***************************************************************************)
(* C15  Cached depth is monotone: no step removes a key from the table or  *)
(* lowers the depth stored under it.                                       *)
(***************************************************************************)
C15_DepthMonotone ==
    [][\A key \in DOMAIN cached :
           key \in DOMAIN cached' /\ cached'[key].depth >= cached[key].depth]_vars

\* An entry has just been written over one of smaller depth.
C15_Witness ==
    /\ event.kind \in {"next", "cutoff", "return", "nomoves"}
    /\ event.had >= 1
    /\ event.had < event.asked
    /\ cached[event.key].depth = event.asked

(***************************************************************************)
(* C16  Piece conservation.  In every State generate_successors returned   *)
(* the side that moved has as many men and kings as in the parent and at   *)
(* most one of its pieces has changed square: exactly one, unless a chain  *)
(* of jumps ended on the square it started from.  A simple move leaves     *)
(* every piece of the opponent in place; a chain of k jumps removes the k  *)
(* pieces of the opponent that were jumped over and nothing else; and      *)
(* along a run neither side's number of pieces ever increases.             *)
(***************************************************************************)
\* The squares the mover left, the squares it came to, and the squares where
\* a piece of the opponent stood that is no longer there as it was.
Vacated(parent, child) ==
    {c \in Cells : /\ At(parent.board, c) \in Own(parent.next_turn)
                   /\ At(child.board, c) \notin Own(parent.next_turn)}

Entered(parent, child) ==
    {c \in Cells : /\ At(parent.board, c) \notin Own(parent.next_turn)
                   /\ At(child.board, c) \in Own(parent.next_turn)}

Removed(parent, child) ==
    {c \in Cells : /\ At(parent.board, c) \in Own(Other(parent.next_turn))
                   /\ At(child.board, c) # At(parent.board, c)}

OpponentInPlace(parent, child) ==
    \A c \in Cells :
        (\/ At(parent.board, c) \in Own(Other(parent.next_turn))
         \/ At(child.board, c) \in Own(Other(parent.next_turn)))
            => At(child.board, c) = At(parent.board, c)

\* On board b, from which the jumping piece has been lifted, a piece on
\* square `at` that moves along dirs can jump the pieces on the squares
\* `over` one after another, each into an empty square, and end on `to`.
RECURSIVE Jumped(_, _, _, _, _)
Jumped(b, at, over, dirs, to) ==
    IF over = {} THEN at = to
    ELSE \E d \in dirs :
             LET mid == <<at[1] + d[1], at[2] + d[2]>>
                 land == <<at[1] + 2 * d[1], at[2] + 2 * d[2]>>
             IN  /\ land \in Cells
                 /\ mid \in over
                 /\ At(b, land) = EMPTY_SQUARE
                 /\ Jumped([b EXCEPT ![mid[1]][mid[2]] = EMPTY_SQUARE],
                           land, over \ {mid}, dirs, to)

\* child is parent after the piece on `from` jumped over every piece that
\* is gone and over nothing else, and came to stand on `to`.
IsChain(parent, child, from, to) ==
    LET t == parent.next_turn
        over == Removed(parent, child)
    IN  /\ At(parent.board, from) \in Own(t)
        /\ At(child.board, to) \in Own(t)
        /\ over # {}
        /\ Jumped([parent.board EXCEPT ![from[1]][from[2]] = EMPTY_SQUARE],
                  from, over, Reach(parent.board, from, t), to)
        /\ child.board =
               [i \in Rows |-> [j \in Cols |->
                   IF <<i, j>> = to THEN At(child.board, to)
                   ELSE IF <<i, j>> = from \/ <<i, j>> \in over THEN EMPTY_SQUARE
                   ELSE parent.board[i][j]]]
        /\ Count(child.board, Own(Other(t))) + Cardinality(over)
               = Count(parent.board, Own(Other(t)))

\* What the claim says of a returned State, but for the squares changed.
Conserved(parent, child) ==
    /\ Count(child.board, Own(parent.next_turn))
           = Count(parent.board, Own(parent.next_turn))
    /\ IF CaptureAvailable(parent)
       THEN \E from \in Cells, to \in Cells : IsChain(parent, child, from, to)
       ELSE OpponentInPlace(parent, child)

NeverMore ==
    \A n \in 1 .. Len(shown) - 1 : \A t \in Sides :
        Count(shown[n + 1].board, Own(t)) <= Count(shown[n].board, Own(t))

\* As stated: exactly one piece of the mover has changed square.
C16_AsStated ==
    /\ Generated =>
           \A k \in 1 .. Len(succs) :
               /\ Conserved(state, succs[k])
               /\ Cardinality(Vacated(state, succs[k])) = 1
               /\ Cardinality(Entered(state, succs[k])) = 1
    /\ NeverMore

C16_PieceConservation ==
    /\ Generated =>
           \A k \in 1 .. Len(succs) :
               /\ Conserved(state, succs[k])
               /\ Cardinality(Vacated(state, succs[k])) <= 1
               /\ Cardinality(Entered(state, succs[k]))
                      = Cardinality(Vacated(state, succs[k]))
               /\ Vacated(state, succs[k]) = {} =>
                      \E from \in Cells : IsChain(state, succs[k], from, from)
    /\ NeverMore

\* A king went round the ring over four pieces and stands where it stood.
C16_Witness ==
    /\ Generated
    /\ \E k \in 1 .. Len(succs) :
           /\ Vacated(state, succs[k]) = {}
           /\ Cardinality(Removed(state, succs[k])) = 4

(***************************************************************************)
(* C6  Immutability.  generate_successors, get_utility and a search call   *)
(* in either role leave the board and next_turn of the State they are      *)
(* given as they were; no two State objects hold the same board object;    *)
(* and no operation changes a board or a State object that existed before  *)
(* it, so a State once returned is never changed.                          *)
(***************************************************************************)
\* The State an object stands for.
Deref(boards, obj) == State(boards[obj.board], obj.next_turn)

NoSharedBoard ==
    \A o1 \in 1 .. Len(objs), o2 \in 1 .. Len(objs) :
        o1 # o2 => objs[o1].board # objs[o2].board

NothingChanged ==
    /\ \A a \in 1 .. Len(heap) : a <= Len(heap') /\ heap'[a] = heap[a]
    /\ \A o \in 1 .. Len(objs) : o <= Len(objs') /\ objs'[o] = objs[o]

\* What the operations return is what they return on values.
SameAsOnValues ==
    Len(shown) = 1 =>
        /\ shown[1].op = "generate_successors" =>
               [k \in 1 .. Len(succs) |-> Deref(heap, objs[succs[k]])]
                   = generate_successors(state)
        /\ shown[1].op = "get_utility" => value = get_utility(state)

C6_Immutability ==
    /\ [](NoSharedBoard /\ SameAsOnValues)
    /\ [][NothingChanged]_vars

\* A second operation was applied to a State the first one returned, and it
\* constructed States of its own.
C6_Witness ==
    /\ Len(shown) = 2
    /\ shown[2].self > 1
    /\ Len(objs) > shown[2].objs
    /\ Len(heap) > Len(objs)

====
